---- MODULE Spec2Model ----
(***************************************************************************)
(* Prompt-streaming relay of the OpenCode chatbot backend.                 *)
(*                                                                         *)
(* The repository holds several generations of the same server.  A run of  *)
(* the model is a run of ONE of them (impl): src/unnamed/part_002 (the     *)
(* multi-user server) or src/chatbot-ui/server.js.  Each prompt request    *)
(* POST /api/sessions/:id/prompt is one relay session; the model runs one  *)
(* relay per session id of SessionIds against one global upstream feed.    *)
(*                                                                         *)
(* Node runs every callback to completion, so one action is one callback:  *)
(* the request handler up to its await, the continuation after the await   *)
(* (or its catch block), eventSource.onmessage, eventSource.onerror, a     *)
(* timer callback, the request's "close" listeners.                        *)
(***************************************************************************)
EXTENDS Integers, Sequences, FiniteSets, TLC

\* ---------------------------------------------------------------- bounds
MaxFeed == 2          \* events the upstream emits in a run with one relay
MaxFanFeed == 1       \* events the upstream emits in a run with two relays
MaxFairFeed == 1      \* events the upstream emits in a run checked for liveness
MaxSdkFeed == 2       \* events the SDK delivers in a run of the SDK-based server
MaxCalls == 2         \* requests to the other /api routes in a run
MaxArrivals == 62     \* requests of the first address that reach the rate limiter
MaxOtherArrivals == 2 \* requests of the second address that reach the rate limiter
MaxElapses == 2       \* times the clock is advanced in a run of the rate limiter
MaxNameLen == 2       \* pieces in the file name of a download request

\* ------------------------------------------------------ program constants
GRACE_MS == 300       \* setTimeout(..., 300) after session.idle
SAFETY_MS == 300000   \* setTimeout(..., 5 * 60 * 1000)

Impls == {"part_002", "server_js"}

\* the :id of the prompt requests; relay r serves session id r
SessionIds == {"abc", "xyz"}

\* req.body.content: missing, empty, or a text
Absent == "<absent>"
Contents == {Absent, "", "hello"}

\* properties.sessionID of an upstream event: missing, empty, or an id
Sids == {Absent, ""} \cup SessionIds

EventTypes == {"session.idle", "message.part.updated"}

\* event.data of the upstream feed: a JSON envelope, or text that is not JSON
Malformed == [json |-> FALSE, type |-> "", sid |-> Absent]
Events == [json : {TRUE}, type : EventTypes, sid : Sids] \cup {Malformed}

\* the events of the runs with two relays: well formed, with no session id
\* or the id of one of the relays
FanEvents == [json : {TRUE}, type : EventTypes, sid : {Absent} \cup SessionIds]

NoTimer == -1

VARIABLES
    impl,     \* which server program runs
    clients,  \* the session ids whose browser sends a prompt in this run
    budget,   \* events the upstream still emits in this run
    feed,     \* events emitted by the upstream /event feed so far
    relay,    \* per session id: the closure state of its prompt handler
    calls,    \* the requests to the other /api routes, in order of arrival
    limiter,  \* the rate limiter in front of the routes, and what it has decided
    download  \* the last request to the download route and its answer

vars == <<impl, clients, budget, feed, relay, calls, limiter, download>>

\* The runs with two relays are the runs of the fan-out scenario: both
\* browsers have sent their prompt before the upstream emits, the events are
\* well formed, and the clock is sampled at the expiries only.
Fan == Cardinality(clients) > 1

\* JavaScript truthiness of a string-or-undefined value
Truthy(v) == v \notin {Absent, ""}

\* ------------------------------------------------------------ relay state
InitRelay ==
    [ pc            |-> "none",       \* none | rejected | awaiting | returned | caught
      content       |-> Absent,       \* req.body.content of the request
      status        |-> 0,            \* HTTP status sent (0: nothing sent yet)
      finished      |-> FALSE,        \* let finished
      eventSource   |-> "undefined",  \* let eventSource: undefined | object | null
      esOpen        |-> FALSE,        \* the subscription's connection is open
      safetyTimeout |-> "null",       \* the timer handle variable: null | timer
      safetyDue     |-> NoTimer,      \* ms until the pending safety timer expires
      clearOnClose  |-> FALSE,        \* server.js: second "close" listener registered
      grace         |-> << >>,        \* ms until each pending grace timer expires, FIFO
      out           |-> << >>,        \* payloads of the res.write calls, in order
      ended         |-> 0,            \* res.end() calls
      closes        |-> 0,            \* eventSource.close() calls
      clears        |-> 0,            \* clearTimeout(safety timer) calls
      subs          |-> 0,            \* new EventSource(...) calls
      submits       |-> 0,            \* prompt_async calls
      clientClosed  |-> FALSE,        \* req "close" was emitted
      subAt         |-> 0,            \* length of the feed when the relay subscribed
      cursor        |-> 0,            \* feed events delivered to onmessage so far
      sinceIdle     |-> NoTimer,      \* history: ms since the first session.idle that passed
                                      \* the filter, counted up to GRACE_MS
      ops           |-> << >> ]       \* history: the outward calls of the handler, in order

\* ------------------------------------------------------------ the payloads
DoneLine == [type |-> "done"]
FeedErrorLine == [type |-> "error", message |-> "SSE connection lost"]
\* err.message of the rejected prompt_async call
PromptErrorLine == [type |-> "error", message |-> "OpenCode API returned 500"]
TimeoutLine == [type |-> "timeout", message |-> "Response timed out after 5 minutes"]
TimeoutLineJs == [type |-> "timeout", message |-> "Response timed out"]

\* JSON.stringify(JSON.parse(event.data)): the envelope's fields, re-serialised
Forwarded(e) == [type |-> e.type, sid |-> e.sid]

TerminalTypes == {"done", "error", "timeout"}

\* res.write(`data: ${...}\n\n`)
Write(s, line) == [s EXCEPT !.out = Append(@, line)]

\* res.end()
End(s) == [s EXCEPT !.ended = @ + 1, !.ops = Append(@, "res.end")]

\* ---------------------------------------------------------------- cleanup
\* cleanup without its finished guard, keeping the handles
cleanup_reentrant(s) ==
    LET a == [s EXCEPT !.finished = TRUE]
        b == IF a.safetyTimeout # "null"
             THEN [a EXCEPT !.clears = @ + 1, !.safetyDue = NoTimer]
             ELSE a
    IN  IF b.eventSource = "object"
        THEN [b EXCEPT !.closes = @ + 1, !.esOpen = FALSE]
        ELSE b

cleanup_part_002(s) ==
    IF ~s.finished
    THEN LET a == [s EXCEPT !.finished = TRUE, !.ops = Append(@, "cleanup")]
             b == IF a.safetyTimeout # "null"
                  THEN [a EXCEPT !.clears = @ + 1, !.safetyDue = NoTimer,
                                 !.safetyTimeout = "null"]
                  ELSE a
             c == IF b.eventSource = "object"
                  THEN [b EXCEPT !.closes = @ + 1, !.esOpen = FALSE,
                                 !.eventSource = "null"]
                  ELSE b
         IN  c
    ELSE s

cleanup_server_js(s) ==
    IF ~s.finished
    THEN LET a == [s EXCEPT !.finished = TRUE, !.ops = Append(@, "cleanup")]
         IN  IF a.eventSource = "object"
             THEN [a EXCEPT !.closes = @ + 1, !.esOpen = FALSE]
             ELSE a
    ELSE s

cleanup(s) ==
    IF impl = "part_002" THEN cleanup_part_002(s) ELSE cleanup_server_js(s)

\* ----------------------------------------------------------------- timers
\* Time is kept per timer, as the ms left until it expires.  The event loop
\* runs a timer's callback at its expiry, before time moves on; callbacks
\* that became ready at the same instant run in any order.
PendingOf(s) ==
    {s.grace[i] : i \in 1..Len(s.grace)} \cup
    (IF s.safetyDue # NoTimer THEN {s.safetyDue} ELSE {})

Pending == UNION {PendingOf(relay[r]) : r \in SessionIds}

MayFire(d) == d = 0

Min(S) == CHOOSE d \in S : \A x \in S : d <= x

\* the instants the clock is sampled at: the next expiry, and half a grace
\* interval before it
Steps ==
    IF Pending = {} \/ Min(Pending) = 0 THEN {}
    ELSE {Min(Pending)} \cup
         (IF ~Fan /\ Min(Pending) > GRACE_MS \div 2
          THEN {Min(Pending) - (GRACE_MS \div 2)} ELSE {})

\* d ms pass for the timers of one relay
Age(s, d) ==
    [s EXCEPT !.grace = [i \in 1..Len(s.grace) |-> s.grace[i] - d],
              !.safetyDue = IF @ = NoTimer THEN NoTimer ELSE @ - d,
              !.sinceIdle = IF @ = NoTimer THEN NoTimer
                            ELSE IF @ + d > GRACE_MS THEN GRACE_MS ELSE @ + d]

\* ------------------------------------------------- the request handler
\* the filter with its comparison inverted
Dropped_inverted(e, id) == Truthy(e.sid) /\ e.sid = id

\* the filter without its test that the id is present
Dropped_strict(e, id) == e.sid # id

\* the session filter of onmessage: TRUE when the event is dropped
Dropped(e, id) == Truthy(e.sid) /\ e.sid # id

\* the handler rejecting a missing content only
handler_missingOnly(s, content) ==
    IF content = Absent
    THEN [s EXCEPT !.pc = "rejected", !.status = 400]
    ELSE [s EXCEPT !.pc = "awaiting", !.status = 200,
                   !.eventSource = "object", !.esOpen = TRUE, !.subs = @ + 1,
                   !.submits = @ + 1,
                   !.ops = @ \o << "writeHead", "new EventSource", "prompt_async" >>]

\* the handler sending the prompt before it subscribes
handler_promptFirst(s, content) ==
    IF ~Truthy(content)
    THEN [s EXCEPT !.pc = "rejected", !.status = 400]
    ELSE [s EXCEPT !.pc = "awaiting", !.status = 200,
                   !.eventSource = "object", !.esOpen = TRUE, !.subs = @ + 1,
                   !.submits = @ + 1,
                   !.ops = @ \o << "writeHead", "prompt_async", "new EventSource" >>]

\* if (!content) return res.status(400)...; otherwise everything up to the
\* await: res.writeHead, new EventSource, the prompt_async request
handler(s, content) ==
    IF ~Truthy(content)
    THEN [s EXCEPT !.pc = "rejected", !.status = 400]
    ELSE [s EXCEPT !.pc = "awaiting", !.status = 200,
                   !.eventSource = "object", !.esOpen = TRUE, !.subs = @ + 1,
                   !.submits = @ + 1,
                   !.ops = @ \o << "writeHead", "new EventSource", "prompt_async" >>]

\* onmessage with the 100 ms delay of the older server
onmessage_short(s, e, id) ==
    IF s.finished THEN s
    ELSE IF ~e.json THEN s
    ELSE IF Dropped(e, id) THEN s
    ELSE LET w == Write(s, Forwarded(e))
         IN  IF e.type = "session.idle"
             THEN [w EXCEPT !.grace = Append(@, GRACE_MS \div 3)]
             ELSE w

\* onmessage without `if (finished) return`
onmessage_ungated(s, e, id) ==
    IF ~e.json THEN s
    ELSE IF Dropped(e, id) THEN s
    ELSE LET w == Write(s, Forwarded(e))
         IN  IF e.type = "session.idle"
             THEN [w EXCEPT !.grace = Append(@, GRACE_MS)]
             ELSE w

\* onmessage without the try/catch around JSON.parse: the failure ends the
\* session with an error
onmessage_parseFatal(s, e, id) ==
    IF s.finished THEN s
    ELSE IF ~e.json THEN End(cleanup(Write(s, FeedErrorLine)))
    ELSE IF Dropped(e, id) THEN s
    ELSE LET w == Write(s, Forwarded(e))
         IN  IF e.type = "session.idle"
             THEN [w EXCEPT !.grace = Append(@, GRACE_MS)]
             ELSE w

\* onmessage restarting the grace interval at every session.idle
onmessage_debounce(s, e, id) ==
    IF s.finished THEN s
    ELSE IF ~e.json THEN s
    ELSE IF Dropped(e, id) THEN s
    ELSE LET w == Write(s, Forwarded(e))
         IN  IF e.type = "session.idle"
             THEN [w EXCEPT !.grace = << GRACE_MS >>]
             ELSE w

\* onmessage detecting completion apart from the filter
onmessage_idleUnfiltered(s, e, id) ==
    IF s.finished THEN s
    ELSE IF ~e.json THEN s
    ELSE LET w == IF Dropped(e, id) THEN s ELSE Write(s, Forwarded(e))
         IN  IF e.type = "session.idle"
             THEN [w EXCEPT !.grace = Append(@, GRACE_MS)]
             ELSE w

\* onmessage deaf once session.idle was seen
onmessage_deafAfterIdle(s, e, id) ==
    IF s.finished \/ s.grace # << >> THEN s
    ELSE IF ~e.json THEN s
    ELSE IF Dropped(e, id) THEN s
    ELSE LET w == Write(s, Forwarded(e))
         IN  IF e.type = "session.idle"
             THEN [w EXCEPT !.grace = Append(@, GRACE_MS)]
             ELSE w

\* onmessage listening only once the prompt call has returned
onmessage_lateListener(s, e, id) ==
    IF s.finished \/ s.pc = "awaiting" THEN s
    ELSE IF ~e.json THEN s
    ELSE IF Dropped(e, id) THEN s
    ELSE LET w == Write(s, Forwarded(e))
         IN  IF e.type = "session.idle"
             THEN [w EXCEPT !.grace = Append(@, GRACE_MS)]
             ELSE w

\* onmessage taking every forwarded event for the completion
onmessage_anyType(s, e, id) ==
    IF s.finished THEN s
    ELSE IF ~e.json THEN s
    ELSE IF Dropped(e, id) THEN s
    ELSE [Write(s, Forwarded(e)) EXCEPT !.grace = Append(@, GRACE_MS)]

\* onmessage keeping session.idle to itself
onmessage_consumeIdle(s, e, id) ==
    IF s.finished THEN s
    ELSE IF ~e.json THEN s
    ELSE IF Dropped(e, id) THEN s
    ELSE IF e.type = "session.idle"
         THEN [s EXCEPT !.grace = Append(@, GRACE_MS)]
         ELSE Write(s, Forwarded(e))

\* onmessage with its listener registered twice
onmessage_twice(s, e, id) ==
    IF s.finished THEN s
    ELSE IF ~e.json THEN s
    ELSE IF Dropped(e, id) THEN s
    ELSE LET w == Write(Write(s, Forwarded(e)), Forwarded(e))
         IN  IF e.type = "session.idle"
             THEN [w EXCEPT !.grace = Append(@, GRACE_MS)]
             ELSE w

\* eventSource.onmessage
onmessage(s, e, id) ==
    IF s.finished THEN s
    ELSE IF ~e.json THEN s
    ELSE IF Dropped(e, id) THEN s
    ELSE LET w == Write(s, Forwarded(e))
         IN  IF e.type = "session.idle"
             THEN [w EXCEPT !.grace = Append(@, GRACE_MS)]
             ELSE w

\* the grace callback without `if (!finished)`
graceCallback_ungated(s) ==
    End(cleanup(Write(s, DoneLine)))

\* the grace timer's callback
graceCallback(s) ==
    IF ~s.finished THEN End(cleanup(Write(s, DoneLine))) ELSE s

\* onerror ending the response before it releases the resources
onerror_endFirst(s) ==
    IF ~s.finished THEN cleanup(End(Write(s, FeedErrorLine))) ELSE s

\* onerror leaving the subscription to reconnect by itself
onerror_noCleanup(s) ==
    IF ~s.finished THEN End(Write(s, FeedErrorLine)) ELSE s

\* eventSource.onerror
onerror(s) ==
    IF ~s.finished THEN End(cleanup(Write(s, FeedErrorLine))) ELSE s

\* the code after `await opencodeAPI(...)` when the call resolved
afterSubmit(s) ==
    IF impl = "part_002"
    THEN [s EXCEPT !.pc = "returned", !.safetyTimeout = "timer",
                   !.safetyDue = SAFETY_MS]
    ELSE [s EXCEPT !.pc = "returned", !.safetyTimeout = "timer",
                   !.safetyDue = SAFETY_MS,
                   !.clearOnClose = ~s.clientClosed]

\* the safety callback without res.end()
safetyCallback_noEnd(s) ==
    IF ~s.finished THEN cleanup(Write(s, TimeoutLine)) ELSE s

\* the safety timer's callback
safetyCallback(s) ==
    IF ~s.finished
    THEN End(cleanup(Write(s, IF impl = "part_002" THEN TimeoutLine
                                                   ELSE TimeoutLineJs)))
    ELSE s

\* the catch block without `if (!finished)`
catchBlock_ungated(s) ==
    End(cleanup(Write([s EXCEPT !.pc = "caught"], PromptErrorLine)))

\* the catch block releasing the resources without reporting the failure
catchBlock_silent(s) ==
    End(cleanup([s EXCEPT !.pc = "caught"]))

\* the catch block, when the call rejected
catchBlock(s) ==
    LET t == [s EXCEPT !.pc = "caught"]
    IN  IF impl = "part_002"
        THEN (IF ~t.finished THEN End(cleanup(Write(t, PromptErrorLine))) ELSE t)
        ELSE End(cleanup(Write(t, PromptErrorLine)))

\* a close listener that only clears the safety timer
onclose_timerOnly(s) ==
    LET a == [s EXCEPT !.clientClosed = TRUE]
    IN  IF a.safetyTimeout # "null"
        THEN [a EXCEPT !.clears = @ + 1, !.safetyDue = NoTimer]
        ELSE a

\* the listeners of req.on("close")
onclose(s) ==
    LET a == cleanup([s EXCEPT !.clientClosed = TRUE])
    IN  IF a.clearOnClose
        THEN [a EXCEPT !.clears = @ + 1, !.safetyDue = NoTimer]
        ELSE a

\* ------------------------------------------------------ the rate limiter
RATE_LIMIT_WINDOW_MS == 60000
RATE_LIMIT_MAX_REQUESTS == 60

\* req.ip of the clients
Addresses == {"10.0.0.1", "10.0.0.2"}

\* Date.now() - entry.windowStart is kept instead of the two instants; past
\* twice the window every age behaves alike
MaxAge == 2 * RATE_LIMIT_WINDOW_MS + 1

\* rateLimitMap.get(key): no entry, or { windowStart, count }
NoEntry == [has |-> FALSE, age |-> 0, count |-> 0]

\* the limiter opening a new window already at the end of the old one
rateLimit_inclusive(m, key) ==
    LET entry == m[key]
    IN  IF ~entry.has \/ entry.age >= RATE_LIMIT_WINDOW_MS
        THEN [map |-> [m EXCEPT ![key] = [has |-> TRUE, age |-> 0, count |-> 1]],
              verdict |-> "next"]
        ELSE [map |-> [m EXCEPT ![key].count = @ + 1],
              verdict |-> IF entry.count + 1 > RATE_LIMIT_MAX_REQUESTS
                          THEN "429" ELSE "next"]

\* the limiter comparing the count before it counts the request
rateLimit_lateCount(m, key) ==
    LET entry == m[key]
    IN  IF ~entry.has \/ entry.age > RATE_LIMIT_WINDOW_MS
        THEN [map |-> [m EXCEPT ![key] = [has |-> TRUE, age |-> 0, count |-> 1]],
              verdict |-> "next"]
        ELSE [map |-> [m EXCEPT ![key].count = @ + 1],
              verdict |-> IF entry.count > RATE_LIMIT_MAX_REQUESTS
                          THEN "429" ELSE "next"]

\* the limiter's verdict on a request: "next" (passed on) or "429"
\* rateLimit(req, res, next) for the map m and the address key
rateLimit(m, key) ==
    LET entry == m[key]
    IN  IF ~entry.has \/ entry.age > RATE_LIMIT_WINDOW_MS
        THEN [map |-> [m EXCEPT ![key] = [has |-> TRUE, age |-> 0, count |-> 1]],
              verdict |-> "next"]
        ELSE [map |-> [m EXCEPT ![key].count = @ + 1],
              verdict |-> IF entry.count + 1 > RATE_LIMIT_MAX_REQUESTS
                          THEN "429" ELSE "next"]

\* a sweep deleting the entries that are one window old
sweep_oneWindow(m) ==
    [k \in Addresses |->
        IF m[k].has /\ m[k].age >= RATE_LIMIT_WINDOW_MS THEN NoEntry ELSE m[k]]

\* the setInterval callback: stale entries are deleted
sweep(m) ==
    [k \in Addresses |->
        IF m[k].has /\ m[k].age > RATE_LIMIT_WINDOW_MS * 2 THEN NoEntry ELSE m[k]]

\* d ms pass
Older(age, d) == IF age + d > MaxAge THEN MaxAge ELSE age + d

\* What an observer of the front door counts for address k, without looking
\* at the map: the requests passed on since the first passed request that
\* was not within a window of an earlier counted one.
NoTally == [on |-> FALSE, age |-> 0, passed |-> 0]

Tally(w, verdict) ==
    IF verdict # "next" THEN w
    ELSE IF ~w.on \/ w.age > RATE_LIMIT_WINDOW_MS
         THEN [on |-> TRUE, age |-> 0, passed |-> 1]
         ELSE [w EXCEPT !.passed = @ + 1]

InitLimiter ==
    [ map      |-> [k \in Addresses |-> NoEntry],   \* rateLimitMap
      tally    |-> [k \in Addresses |-> NoTally],   \* history, per address
      arrivals |-> [k \in Addresses |-> 0],         \* requests seen so far, per address
      from     |-> "",                              \* address of the last request
      verdict  |-> "",                              \* verdict on the last request
      elapses  |-> 0,                               \* clock advances so far
      unswept  |-> [k \in Addresses |-> NoEntry],   \* history: rateLimitMap of the same requests with no sweep
      unsweptVerdict |-> "" ]                       \* history: the verdict that map gives on the last request

\* ----------------------------------------------------- the download route
UPLOAD_DIR == << <<"workspace">>, <<"uploads">> >>
OUTPUT_DIR == << <<"workspace">>, <<"outputs">> >>

\* req.params.category
Categories == {"uploads", "outputs", "config"}

\* req.params.filename is a sequence of pieces: plain text, the characters
\* the route looks for, and percent escapes ("%" is a percent sign that
\* starts no escape)
Pieces == {"report", "..", "/", "\\", "%2e%2e", "%2f", "%5c", "%25", "%"}

RECURSIVE NamesUpTo(_)
NamesUpTo(n) ==
    IF n = 0 THEN {<< >>}
    ELSE NamesUpTo(n - 1) \cup
         {Append(s, x) : s \in {y \in NamesUpTo(n - 1) : Len(y) = n - 1}, x \in Pieces}

Filenames == NamesUpTo(MaxNameLen) \ {<< >>}

\* decodeURIComponent of one piece
DecodePiece(x) ==
    CASE x = "%2e%2e" -> ".."
      [] x = "%2f" -> "/"
      [] x = "%5c" -> "\\"
      [] x = "%25" -> "%"
      [] OTHER -> x

\* decodeURIComponent(filename): throws URIError on a "%" that starts no escape
decodeURIComponent(name) ==
    IF \E i \in 1..Len(name) : name[i] = "%"
    THEN [threw |-> TRUE, text |-> << >>]
    ELSE [threw |-> FALSE, text |-> [i \in 1..Len(name) |-> DecodePiece(name[i])]]

\* String.prototype.includes
includes(text, x) == \E i \in 1..Len(text) : text[i] = x

\* path.resolve: a path is the sequence of its segments
Push(path, seg) ==
    IF seg = << >> THEN path
    ELSE IF seg = << ".." >>
         THEN (IF path = << >> THEN path ELSE SubSeq(path, 1, Len(path) - 1))
         ELSE Append(path, seg)

RECURSIVE Walk(_, _, _)
Walk(path, seg, text) ==
    IF text = << >> THEN Push(path, seg)
    ELSE IF Head(text) = "/" THEN Walk(Push(path, seg), << >>, Tail(text))
    ELSE Walk(path, Append(seg, Head(text)), Tail(text))

resolve(dir, text) ==
    Walk(IF text # << >> /\ Head(text) = "/" THEN << >> ELSE dir, << >>, text)

\* filePath.startsWith(resolve(dir) + "/")
startsWithDir(path, dir) ==
    Len(path) > Len(dir) /\ SubSeq(path, 1, Len(dir)) = dir

NoPath == << >>

\* app.get("/api/files/:category/:filename"); exists is existsSync(filePath).
\* A throw in the handler reaches Express's own error handler (500): the
\* application's error middleware is registered before this route.
downloadFile(category, filename, exists) ==
    IF category # "uploads" /\ category # "outputs"
    THEN [status |-> 400, sent |-> NoPath]
    ELSE LET dir == IF category = "outputs" THEN OUTPUT_DIR ELSE UPLOAD_DIR
             decoded == decodeURIComponent(filename)
             filePath == resolve(dir, decoded.text)
         IN  IF decoded.threw
             THEN [status |-> 500, sent |-> NoPath]
             ELSE IF includes(decoded.text, "/") \/ includes(decoded.text, "\\")
                     \/ includes(decoded.text, "..")
             THEN [status |-> 403, sent |-> NoPath]
             ELSE IF ~startsWithDir(filePath, dir) /\ filePath # dir
             THEN [status |-> 403, sent |-> NoPath]
             ELSE IF ~exists
             THEN [status |-> 404, sent |-> NoPath]
             ELSE [status |-> 200, sent |-> filePath]

NoDownload ==
    [category |-> "", filename |-> << >>, exists |-> FALSE,
     status |-> 0, sent |-> NoPath]

\* -------------------------------------------- the SDK-based server (part_000)
\* The oldest server subscribes through the SDK client and has no finished
\* flag.  Its relay uses the same record; finished stays FALSE, eventSource
\* stands for the subscription and closes counts the calls of unsubscribe.
SDK_GRACE_MS == 100

CompletionTypes == {"message.complete", "session.complete", "assistant.message.complete"}

\* the events the SDK hands to the callback
SdkEvents ==
    [json : {TRUE},
     type : {"message.part.updated", "message.complete", "session.complete"},
     sid : {Absent} \cup SessionIds]

\* unsubscribe?.()
unsubscribe(s) == [s EXCEPT !.closes = @ + 1, !.esOpen = FALSE]

\* the callback given to client.event.subscribe
subscribeCallback(s, e, id) ==
    LET mine == e.sid = id \/ ~Truthy(e.sid)
        w == IF mine THEN Write(s, Forwarded(e)) ELSE s
    IN  IF e.type \in CompletionTypes /\ mine
        THEN [Write(w, DoneLine) EXCEPT !.grace = Append(@, SDK_GRACE_MS)]
        ELSE w

\* the callback of the 100 ms timer
sdkEndCallback(s) == End(unsubscribe(s))

\* after `await client.session.prompt(...)`: the timeout and the close listener
sdkAfterSubmit(s) ==
    [s EXCEPT !.pc = "returned", !.safetyTimeout = "timer",
              !.safetyDue = SAFETY_MS, !.clearOnClose = ~s.clientClosed]

\* the callback of the 5-minute timer
sdkTimeoutCallback(s) == End(unsubscribe(Write(s, TimeoutLineJs)))

\* the catch block
sdkCatchBlock(s) == End(Write([s EXCEPT !.pc = "caught"], PromptErrorLine))

\* req "close": the listener exists only once the prompt call has returned
sdkOnclose(s) ==
    LET a == [s EXCEPT !.clientClosed = TRUE]
    IN  IF a.clearOnClose
        THEN unsubscribe([a EXCEPT !.clears = @ + 1, !.safetyDue = NoTimer])
        ELSE a

\* ----------------------------------------------------------------- actions
Start ==
    /\ feed = << >>
    /\ relay = [r \in SessionIds |-> InitRelay]
    /\ calls = << >>
    /\ limiter = InitLimiter
    /\ download = NoDownload

\* one browser, either server
Init ==
    /\ impl \in Impls
    /\ clients = {"abc"}
    /\ budget = MaxFeed
    /\ Start

\* two browsers at once, the multi-user server
InitFan ==
    /\ impl = "part_002"
    /\ clients = SessionIds
    /\ budget = MaxFanFeed
    /\ Start

\* one browser, the multi-user server, a shorter feed
InitFair ==
    /\ impl = "part_002"
    /\ clients = {"abc"}
    /\ budget = MaxFairFeed
    /\ Start

\* POST /api/sessions/r/prompt arrives
Request(r, content) ==
    /\ r \in clients
    /\ relay[r].pc = "none"
    /\ relay' = [relay EXCEPT ![r] =
          [handler([@ EXCEPT !.content = content], content)
             EXCEPT !.subAt = Len(feed), !.cursor = Len(feed)]]
    /\ UNCHANGED <<impl, clients, budget, feed, calls, limiter, download>>

Alphabet == IF Fan THEN FanEvents ELSE Events

\* the upstream emits an event on its global feed
Emit(e) ==
    /\ budget > 0
    /\ Fan => \A r \in clients : relay[r].pc # "none"
    /\ feed' = Append(feed, e)
    /\ budget' = budget - 1
    /\ UNCHANGED <<impl, clients, relay, calls, limiter, download>>

\* the next feed event reaches relay r's subscription
\* (a delivery to a finished relay returns at once; it is not counted)
OnMessage(r) ==
    LET s == relay[r]
        e == feed[s.cursor + 1]
        t == onmessage(s, e, r)
        u == IF s.finished THEN t ELSE [t EXCEPT !.cursor = @ + 1]
    IN  /\ s.eventSource # "undefined"
        /\ s.cursor < Len(feed)
        /\ relay' = [relay EXCEPT ![r] =
              IF ~s.finished /\ e.json /\ ~Dropped(e, r)
                 /\ e.type = "session.idle" /\ s.sinceIdle = NoTimer
              THEN [u EXCEPT !.sinceIdle = 0] ELSE u]
        /\ UNCHANGED <<impl, clients, budget, feed, calls, limiter, download>>

\* one subscription shared by the relays: its error reaches all of them
OnError_shared(r) ==
    /\ relay[r].eventSource # "undefined"
    /\ relay' = [x \in SessionIds |->
                   IF relay[x].eventSource # "undefined"
                   THEN onerror(relay[x]) ELSE relay[x]]
    /\ UNCHANGED <<impl, clients, budget, feed, calls, limiter, download>>

\* the subscription of relay r reports an error
OnError(r) ==
    /\ relay[r].eventSource # "undefined"
    /\ relay' = [relay EXCEPT ![r] = onerror(@)]
    /\ UNCHANGED <<impl, clients, budget, feed, calls, limiter, download>>

\* the prompt_async call of relay r resolves
SubmitOk(r) ==
    /\ relay[r].pc = "awaiting"
    /\ relay' = [relay EXCEPT ![r] = afterSubmit(@)]
    /\ UNCHANGED <<impl, clients, budget, feed, calls, limiter, download>>

\* the prompt_async call of relay r rejects
SubmitFail(r) ==
    /\ relay[r].pc = "awaiting"
    /\ relay' = [relay EXCEPT ![r] = catchBlock(@)]
    /\ UNCHANGED <<impl, clients, budget, feed, calls, limiter, download>>

\* the oldest grace timer of relay r expires
GraceFire(r) ==
    /\ relay[r].grace # << >>
    /\ MayFire(Head(relay[r].grace))
    /\ relay' = [relay EXCEPT ![r] = graceCallback([@ EXCEPT !.grace = Tail(@)])]
    /\ UNCHANGED <<impl, clients, budget, feed, calls, limiter, download>>

\* the safety timer of relay r expires
SafetyFire(r) ==
    /\ relay[r].safetyDue # NoTimer
    /\ MayFire(relay[r].safetyDue)
    /\ relay' = [relay EXCEPT ![r] = safetyCallback([@ EXCEPT !.safetyDue = NoTimer])]
    /\ UNCHANGED <<impl, clients, budget, feed, calls, limiter, download>>

\* the client of relay r goes away: req emits "close"
ClientClose(r) ==
    /\ relay[r].status = 200
    /\ ~relay[r].clientClosed
    /\ relay' = [relay EXCEPT ![r] = onclose(@)]
    /\ UNCHANGED <<impl, clients, budget, feed, calls, limiter, download>>

\* d ms pass
Tick(d) ==
    /\ relay' = [r \in SessionIds |-> Age(relay[r], d)]
    /\ UNCHANGED <<impl, clients, budget, feed, calls, limiter, download>>

Next ==
    \/ \E r \in SessionIds, c \in Contents : Request(r, c)
    \/ \E e \in Alphabet : Emit(e)
    \/ \E r \in SessionIds : OnMessage(r)
    \/ \E r \in SessionIds : OnError(r)
    \/ \E r \in SessionIds : SubmitOk(r)
    \/ \E r \in SessionIds : SubmitFail(r)
    \/ \E r \in SessionIds : GraceFire(r)
    \/ \E r \in SessionIds : SafetyFire(r)
    \/ \E r \in SessionIds : ClientClose(r)
    \/ \E d \in Steps : Tick(d)

Spec == Init /\ [][Next]_vars

SpecFan == InitFan /\ [][Next]_vars

\* Timers expire: the clock reaches the next expiry and the event loop runs
\* the callback.  Nothing makes the upstream emit, answer or fail, nor the
\* client leave.
Fairness ==
    /\ WF_vars(\E d \in Steps : Tick(d))
    /\ \A r \in SessionIds : WF_vars(GraceFire(r))
    /\ \A r \in SessionIds : WF_vars(SafetyFire(r))

FairSpec == InitFair /\ [][Next]_vars /\ Fairness

\* ------------------------------------------------------ the other routes
\* The routes that make one upstream call and answer from its outcome.
Routes == {"GET /api/health", "GET /api/agents", "GET /api/sessions",
           "POST /api/sessions", "GET /api/sessions/:id",
           "GET /api/sessions/:id/messages"}

\* the path each route asks the upstream for (:id is "abc")
PathOf(route) ==
    CASE route = "GET /api/health" -> "/global/health"
      [] route = "GET /api/agents" -> "/agent"
      [] route = "GET /api/sessions" -> "/session"
      [] route = "POST /api/sessions" -> "/session"
      [] route = "GET /api/sessions/:id" -> "/session/abc"
      [] route = "GET /api/sessions/:id/messages" -> "/session/abc/message"

\* JavaScript values: kind is the type, items what the value holds
Value(kind, items) == [kind |-> kind, items |-> items]
Undefined == Value("undefined", << >>)
EmptyArray == Value("array", << >>)

\* the bodies the upstream answers with, as text
Bodies == {"[]", "[{\"id\":\"abc\"}]", "{\"id\":\"abc\"}", "null", "Not Found"}

\* JSON.parse(text), falling back to the text itself (opencodeAPI's try/catch)
Parse(text) ==
    CASE text = "[]" -> EmptyArray
      [] text = "[{\"id\":\"abc\"}]" -> Value("array", << "abc" >>)
      [] text = "{\"id\":\"abc\"}" -> Value("object", << "abc" >>)
      [] text = "null" -> Value("null", << >>)
      [] OTHER -> Value("string", << text >>)

\* what fetch meets: no connection (status 0), or an HTTP answer
Unreachable == [status |-> 0, text |-> "fetch failed"]
Replies == {Unreachable} \cup [status : {200, 500}, text : Bodies]

\* res.ok
Ok(reply) == reply.status >= 200 /\ reply.status <= 299

\* an Error: its message names the path, the status and the body
Err(path, reply) == [path |-> path, status |-> reply.status, text |-> reply.text]
NoErr == [path |-> "", status |-> 0, text |-> ""]

\* opencodeAPI(path): throws when fetch rejects or the status is not 2xx,
\* returns the parsed body otherwise
opencodeAPI(path, reply) ==
    IF reply = Unreachable \/ ~Ok(reply)
    THEN [threw |-> TRUE, err |-> Err(path, reply), value |-> Undefined]
    ELSE [threw |-> FALSE, err |-> NoErr, value |-> Parse(reply.text)]

\* Array.isArray
IsArray(v) == v.kind = "array"

\* what a route answers: the HTTP status and the object given to res.json
\*   shape "value":  the value itself
\*   shape "error":  { error: err.message }
\*   shape "health": { status, opencode } or { status, message, detail }
Answer(status, shape, health, value, err) ==
    [status |-> status, shape |-> shape, health |-> health,
     value |-> value, err |-> err]
NoAnswer == Answer(0, "", "", Undefined, NoErr)

\* GET /api/health
healthCheck(r) ==
    IF ~r.threw
    THEN Answer(200, "health", "ok", r.value, NoErr)
    ELSE Answer(503, "health", "error", Undefined, r.err)

\* GET /api/agents
listAgents(r) ==
    IF ~r.threw
    THEN Answer(200, "value", "", r.value, NoErr)
    ELSE Answer(500, "error", "", Undefined, r.err)

\* the listing relaying whatever the upstream returned
listSessions_unchecked(r) ==
    IF ~r.threw
    THEN Answer(200, "value", "", r.value, NoErr)
    ELSE Answer(200, "value", "", EmptyArray, NoErr)

\* GET /api/sessions
listSessions(r) ==
    IF ~r.threw
    THEN Answer(200, "value", "", IF IsArray(r.value) THEN r.value ELSE EmptyArray, NoErr)
    ELSE Answer(200, "value", "", EmptyArray, NoErr)

\* session creation answering an empty session when the upstream failed
createSession_default(r) ==
    IF ~r.threw
    THEN Answer(200, "value", "", r.value, NoErr)
    ELSE Answer(200, "value", "", Value("object", << >>), NoErr)

\* POST /api/sessions
createSession(r) ==
    IF ~r.threw
    THEN Answer(200, "value", "", r.value, NoErr)
    ELSE Answer(500, "error", "", Undefined, r.err)

\* GET /api/sessions/:id
getSession(r) ==
    IF ~r.threw
    THEN Answer(200, "value", "", r.value, NoErr)
    ELSE Answer(500, "error", "", Undefined, r.err)

\* GET /api/sessions/:id/messages
getMessages(r) ==
    IF ~r.threw
    THEN Answer(200, "value", "", IF IsArray(r.value) THEN r.value ELSE EmptyArray, NoErr)
    ELSE Answer(200, "value", "", EmptyArray, NoErr)

\* the route's handler, from the settled upstream call to the answer
respond(route, r) ==
    CASE route = "GET /api/health" -> healthCheck(r)
      [] route = "GET /api/agents" -> listAgents(r)
      [] route = "GET /api/sessions" -> listSessions(r)
      [] route = "POST /api/sessions" -> createSession(r)
      [] route = "GET /api/sessions/:id" -> getSession(r)
      [] route = "GET /api/sessions/:id/messages" -> getMessages(r)

\* a request arrives and its handler awaits the upstream
Call(route) ==
    /\ Len(calls) < MaxCalls
    /\ calls' = Append(calls, [route |-> route, pc |-> "awaiting",
                               reply |-> Unreachable, answer |-> NoAnswer])
    /\ UNCHANGED <<impl, clients, budget, feed, relay, limiter, download>>

\* the upstream call of the i-th request settles and the handler answers
Settle(i, reply) ==
    /\ calls[i].pc = "awaiting"
    /\ calls' = [calls EXCEPT ![i] =
          [@ EXCEPT !.pc = "answered", !.reply = reply,
                    !.answer = respond(calls[i].route,
                                       opencodeAPI(PathOf(calls[i].route), reply))]]
    /\ UNCHANGED <<impl, clients, budget, feed, relay, limiter, download>>

\* either server, no prompt in flight
InitApi ==
    /\ impl \in Impls
    /\ clients = {}
    /\ budget = 0
    /\ Start

NextApi ==
    \/ \E route \in Routes : Call(route)
    \/ \E i \in 1..Len(calls), reply \in Replies : Settle(i, reply)

SpecApi == InitApi /\ [][NextApi]_vars

\* ------------------------------------------------- the rate limiter's runs
\* how many requests each address sends in a run
Quota(k) == IF k = "10.0.0.1" THEN MaxArrivals ELSE MaxOtherArrivals

\* the instants the clock is sampled at: a window later, and just after that
Elapses == {RATE_LIMIT_WINDOW_MS, RATE_LIMIT_WINDOW_MS + 1}

\* a request from address k reaches the limiter
Arrive(k) ==
    /\ limiter.arrivals[k] < Quota(k)
    /\ LET r == rateLimit(limiter.map, k)
           u == rateLimit(limiter.unswept, k)
       IN  limiter' = [limiter EXCEPT !.map = r.map,
                                      !.unswept = u.map,
                                      !.unsweptVerdict = u.verdict,
                                      !.tally[k] = Tally(@, r.verdict),
                                      !.arrivals[k] = @ + 1,
                                      !.from = k,
                                      !.verdict = r.verdict]
    /\ UNCHANGED <<impl, clients, budget, feed, relay, calls, download>>

\* d ms pass on the clock of Date.now()
Elapse(d) ==
    /\ limiter.elapses < MaxElapses
    /\ limiter' = [limiter EXCEPT
          !.map = [k \in Addresses |->
                     IF @[k].has THEN [@[k] EXCEPT !.age = Older(@, d)] ELSE @[k]],
          !.tally = [k \in Addresses |->
                     IF @[k].on THEN [@[k] EXCEPT !.age = Older(@, d)] ELSE @[k]],
          !.unswept = [k \in Addresses |->
                     IF @[k].has THEN [@[k] EXCEPT !.age = Older(@, d)] ELSE @[k]],
          !.elapses = @ + 1]
    /\ UNCHANGED <<impl, clients, budget, feed, relay, calls, download>>

\* the five-minute interval fires; its phase against any window is arbitrary
Sweep ==
    /\ limiter.map # sweep(limiter.map)
    /\ limiter' = [limiter EXCEPT !.map = sweep(@)]
    /\ UNCHANGED <<impl, clients, budget, feed, relay, calls, download>>

\* the multi-user server, nothing but its front door
InitLimit ==
    /\ impl = "part_002"
    /\ clients = {}
    /\ budget = 0
    /\ Start

NextLimit ==
    \/ \E k \in Addresses : Arrive(k)
    \/ \E d \in Elapses : Elapse(d)
    \/ Sweep

SpecLimit == InitLimit /\ [][NextLimit]_vars

\* ---------------------------------------------------- the download requests
\* GET /api/files/category/filename arrives and is answered (one request a
\* run: the route keeps no state between requests)
Download(category, filename, exists) ==
    /\ download = NoDownload
    /\ LET a == downloadFile(category, filename, exists)
       IN  download' = [category |-> category, filename |-> filename,
                        exists |-> exists, status |-> a.status, sent |-> a.sent]
    /\ UNCHANGED <<impl, clients, budget, feed, relay, calls, limiter>>

NextFiles ==
    \E category \in Categories, filename \in Filenames, exists \in BOOLEAN :
        Download(category, filename, exists)

\* the multi-user server, nothing but its download route
SpecFiles == InitLimit /\ [][NextFiles]_vars

\* ------------------------------------------- the SDK-based server's runs
\* the SDK delivers the next event to relay r's callback, while subscribed
SdkOnEvent(r) ==
    /\ relay[r].esOpen
    /\ relay[r].cursor < Len(feed)
    /\ relay' = [relay EXCEPT ![r] =
          [subscribeCallback(@, feed[@.cursor + 1], r) EXCEPT !.cursor = @ + 1]]
    /\ UNCHANGED <<impl, clients, budget, feed, calls, limiter, download>>

\* client.session.prompt of relay r resolves
SdkSubmitOk(r) ==
    /\ relay[r].pc = "awaiting"
    /\ relay' = [relay EXCEPT ![r] = sdkAfterSubmit(@)]
    /\ UNCHANGED <<impl, clients, budget, feed, calls, limiter, download>>

\* client.session.prompt of relay r rejects
SdkSubmitFail(r) ==
    /\ relay[r].pc = "awaiting"
    /\ relay' = [relay EXCEPT ![r] = sdkCatchBlock(@)]
    /\ UNCHANGED <<impl, clients, budget, feed, calls, limiter, download>>

\* the oldest 100 ms timer of relay r expires
SdkEndFire(r) ==
    /\ relay[r].grace # << >>
    /\ MayFire(Head(relay[r].grace))
    /\ relay' = [relay EXCEPT ![r] = sdkEndCallback([@ EXCEPT !.grace = Tail(@)])]
    /\ UNCHANGED <<impl, clients, budget, feed, calls, limiter, download>>

\* the 5-minute timer of relay r expires
SdkTimeoutFire(r) ==
    /\ relay[r].safetyDue # NoTimer
    /\ MayFire(relay[r].safetyDue)
    /\ relay' = [relay EXCEPT ![r] = sdkTimeoutCallback([@ EXCEPT !.safetyDue = NoTimer])]
    /\ UNCHANGED <<impl, clients, budget, feed, calls, limiter, download>>

\* the client of relay r goes away
SdkClientClose(r) ==
    /\ relay[r].status = 200
    /\ ~relay[r].clientClosed
    /\ relay' = [relay EXCEPT ![r] = sdkOnclose(@)]
    /\ UNCHANGED <<impl, clients, budget, feed, calls, limiter, download>>

\* one browser, the SDK-based server
InitSdk ==
    /\ impl = "part_000"
    /\ clients = {"abc"}
    /\ budget = MaxSdkFeed
    /\ Start

NextSdk ==
    \/ \E r \in SessionIds, c \in Contents : Request(r, c)
    \/ \E e \in SdkEvents : Emit(e)
    \/ \E r \in SessionIds : SdkOnEvent(r)
    \/ \E r \in SessionIds : SdkSubmitOk(r)
    \/ \E r \in SessionIds : SdkSubmitFail(r)
    \/ \E r \in SessionIds : SdkEndFire(r)
    \/ \E r \in SessionIds : SdkTimeoutFire(r)
    \/ \E r \in SessionIds : SdkClientClose(r)
    \/ \E d \in Steps : Tick(d)

SpecSdk == InitSdk /\ [][NextSdk]_vars

\* ================================================================= claims
P2 == impl = "part_002"

\* number of lines of a stream whose type is in T
Count(out, T) == Cardinality({i \in 1..Len(out) : out[i].type \in T})

Terminals(s) == Count(s.out, TerminalTypes)

\* C1: part_002 writes at most one terminal signal (done, error, timeout)
\* to a session's stream, whatever the order of the triggers.
C1_OneTerminal ==
    \A r \in SessionIds : P2 => Terminals(relay[r]) <= 1

\* the feed failed first, then the prompt submission failed, then the client left
C1_Witness ==
    \E r \in SessionIds :
        /\ P2 /\ relay[r].pc = "caught" /\ relay[r].clientClosed
        /\ Len(relay[r].out) = 2
        /\ relay[r].out[2] = FeedErrorLine

\* C2: over a part_002 session eventSource.close() runs at most once and
\* clearTimeout on the safety timer at most once.
C2_TeardownOnce ==
    \A r \in SessionIds : P2 => relay[r].closes <= 1 /\ relay[r].clears <= 1

\* done was written, the timer cleared and the feed closed, and then the
\* client's close event called cleanup again
C2_Witness ==
    \E r \in SessionIds :
        /\ P2 /\ relay[r].clientClosed
        /\ relay[r].closes = 1 /\ relay[r].clears = 1
        /\ relay[r].out # << >>
        /\ relay[r].out[Len(relay[r].out)] = DoneLine

\* C3: once the client of a part_002 session has disconnected before any
\* completion signal, its subscription has been closed exactly once and no
\* safety timer of the session is pending.
C3_DisconnectReleases ==
    \A r \in SessionIds :
        (P2 /\ relay[r].clientClosed /\ Terminals(relay[r]) = 0)
        => /\ relay[r].closes = 1
           /\ ~relay[r].esOpen
           /\ relay[r].safetyDue = NoTimer

\* C4: in part_002 finished never goes back to false, and no step taken
\* while it is true writes to the response.
C4_FinishedGates ==
    [][\A r \in SessionIds :
          (P2 /\ relay[r].finished)
          => (relay'[r].finished /\ relay'[r].out = relay[r].out)]_vars

\* the relay finished on the client's disconnect after forwarding an event;
\* later the prompt submission failed and a grace timer expired
C4_Witness ==
    \E r \in SessionIds :
        /\ P2 /\ relay[r].finished /\ relay[r].pc = "caught"
        /\ Len(relay[r].out) = 1 /\ relay[r].out[1].type = "session.idle"
        /\ relay[r].grace = << >>

\* C5: a part_002 session whose stream was opened and whose client stays
\* connected eventually writes a terminal signal and ends the response.
C5_AlwaysTerminates ==
    \A r \in SessionIds :
        (P2 /\ relay[r].status = 200)
        ~> (relay[r].clientClosed
            \/ (Terminals(relay[r]) >= 1 /\ relay[r].ended >= 1))

\* the stream ends with exactly one timeout line, closed and ended
TimedOut(s) ==
    /\ Count(s.out, {"timeout"}) = 1
    /\ s.out[Len(s.out)] = TimeoutLine
    /\ ~s.esOpen /\ s.closes = 1 /\ s.ended = 1

FeedErrored(s) == \E i \in 1..Len(s.out) : s.out[i] = FeedErrorLine

\* the safety callback only adds the timeout line to what was forwarded
TimeoutAppends ==
    [][\A r \in SessionIds :
          (P2 /\ Count(relay'[r].out, {"timeout"}) > Count(relay[r].out, {"timeout"}))
          => /\ relay'[r].out = Append(relay[r].out, TimeoutLine)
             /\ TimedOut(relay'[r])]_vars

\* C6 as stated: an acknowledged part_002 session whose client stays
\* connected and that receives no session.idle gets exactly one timeout
\* line, with the subscription closed and the response ended.
C6_Original ==
    /\ \A r \in SessionIds :
          (P2 /\ relay[r].pc = "returned")
          ~> \/ TimedOut(relay[r])
             \/ relay[r].clientClosed
             \/ relay[r].sinceIdle # NoTimer
    /\ TimeoutAppends

\* C6 (amended): the same, for the sessions whose feed reports no error
\* before the ceiling.
C6_Timeout ==
    /\ \A r \in SessionIds :
          (P2 /\ relay[r].pc = "returned")
          ~> \/ TimedOut(relay[r])
             \/ relay[r].clientClosed
             \/ relay[r].sinceIdle # NoTimer
             \/ FeedErrored(relay[r])
    /\ TimeoutAppends

\* an event was forwarded, then the ceiling elapsed with the client connected
C6_Witness ==
    \E r \in SessionIds :
        /\ P2 /\ ~relay[r].clientClosed /\ relay[r].sinceIdle = NoTimer
        /\ Len(relay[r].out) = 2
        /\ relay[r].out[1].type = "message.part.updated"
        /\ TimedOut(relay[r])

\* C7: part_002 writes done only in the callback of an expired grace timer,
\* no earlier than GRACE_MS after the session.idle that passed the filter,
\* and ends the response and closes the subscription in that same step.
C7_DoneAfterGrace ==
    [][\A r \in SessionIds :
          (P2 /\ Count(relay'[r].out, {"done"}) > Count(relay[r].out, {"done"}))
          => /\ relay[r].sinceIdle = GRACE_MS
             /\ relay[r].grace # << >>
             /\ Head(relay[r].grace) = 0
             /\ Len(relay'[r].grace) = Len(relay[r].grace) - 1
             /\ relay'[r].out = Append(relay[r].out, DoneLine)
             /\ relay'[r].ended = relay[r].ended + 1
             /\ relay'[r].closes = relay[r].closes + 1
             /\ ~relay'[r].esOpen]_vars

\* done was written a grace interval after the idle event
C7_Witness ==
    \E r \in SessionIds :
        /\ P2 /\ relay[r].sinceIdle = GRACE_MS
        /\ Len(relay[r].out) = 2
        /\ relay[r].out[1].type = "session.idle"
        /\ relay[r].out[2] = DoneLine
        /\ relay[r].ended = 1 /\ relay[r].closes = 1

\* C8: no line of a session's stream is an upstream event that carries a
\* non-empty properties.sessionID other than the session's id.
C8_Filter ==
    \A r \in SessionIds :
        \A i \in 1..Len(relay[r].out) :
            relay[r].out[i].type \in EventTypes
            => ~(Truthy(relay[r].out[i].sid) /\ relay[r].out[i].sid # r)

\* a relay received a foreign session.idle, wrote nothing, and forwarded
\* the next event, its own
C8_Witness ==
    \E r \in SessionIds :
        /\ relay[r].subAt = 0 /\ relay[r].cursor = 2
        /\ feed[1].json /\ feed[1].type = "session.idle"
        /\ Truthy(feed[1].sid) /\ feed[1].sid # r
        /\ feed[2].json /\ feed[2].sid = r
        /\ relay[r].out = << Forwarded(feed[2]) >>
        /\ relay[r].grace = << >>

\* the upstream events a relay has received while it was not finished
Received(s) == SubSeq(feed, s.subAt + 1, s.cursor)

\* the forwarded events of a stream
ForwardedLines(s) == SelectSeq(s.out, LAMBDA l : l.type \in EventTypes)

\* what fan-out asks of relay r: the received events that carry no session
\* id or its own
FanOutOf(s, r) ==
    LET mine == SelectSeq(Received(s),
                          LAMBDA e : e.json /\ (e.sid = Absent \/ e.sid = r))
    IN  [i \in 1..Len(mine) |-> Forwarded(mine[i])]

\* C9: with two part_002 relays subscribed, each relay forwards exactly the
\* received events that carry no session id or its own id.
C9_FanOut ==
    \A r \in SessionIds :
        P2 => ForwardedLines(relay[r]) = FanOutOf(relay[r], r)

\* one event without session id reached both relays and is in both streams
C9_Witness ==
    /\ Len(feed) = 1 /\ feed[1].sid = Absent
    /\ \A r \in SessionIds :
          /\ relay[r].subAt = 0 /\ relay[r].cursor = 1
          /\ relay[r].out = << Forwarded(feed[1]) >>

\* C10: a prompt request with missing or empty content is answered 400 and
\* nothing else happens: no stream, no subscription, no prompt, no timer.
C10_EmptyRejected ==
    \A r \in SessionIds :
        (relay[r].pc # "none" /\ ~Truthy(relay[r].content))
        => /\ relay[r].status = 400
           /\ relay[r].subs = 0 /\ relay[r].eventSource = "undefined"
           /\ relay[r].submits = 0
           /\ relay[r].safetyDue = NoTimer /\ relay[r].grace = << >>
           /\ relay[r].out = << >> /\ relay[r].ended = 0

\* an empty content was rejected and the feed went on
C10_Witness ==
    \E r \in SessionIds :
        /\ relay[r].content = "" /\ relay[r].pc = "rejected"
        /\ relay[r].status = 400 /\ Len(feed) = 1

\* C11: when the subscription of an unfinished part_002 relay reports an
\* error, that step writes one error line, closes the subscription and ends
\* the response; no session opens a second subscription, and once the error
\* line is written nothing more is written to the stream.
C11_FeedErrorFinal ==
    [][\A r \in SessionIds :
          P2 => /\ (OnError(r) /\ ~relay[r].finished)
                   => /\ relay'[r].out = Append(relay[r].out, FeedErrorLine)
                      /\ relay'[r].closes = relay[r].closes + 1
                      /\ ~relay'[r].esOpen
                      /\ relay'[r].ended = relay[r].ended + 1
                      /\ relay'[r].finished
                /\ FeedErrored(relay[r])
                   => /\ relay'[r].out = relay[r].out
                      /\ relay'[r].subs = relay[r].subs
                      /\ ~relay'[r].esOpen
                /\ relay'[r].subs <= 1]_vars

\* the feed failed after one forwarded event, and the upstream has emitted
\* another event since
C11_Witness ==
    \E r \in SessionIds :
        /\ P2 /\ Len(feed) = 2 /\ relay[r].cursor = 1
        /\ relay[r].out = << Forwarded(feed[1]), FeedErrorLine >>
        /\ relay[r].subs = 1 /\ relay[r].closes = 1 /\ relay[r].ended = 1

\* C12: when the prompt submission of a part_002 relay fails, an unfinished
\* relay writes the failure as the one error line of its stream, closes the
\* subscription and ends the response in that step; a relay that had
\* already finished writes nothing.
C12_SubmitFailure ==
    [][\A r \in SessionIds :
          (P2 /\ SubmitFail(r))
          => IF ~relay[r].finished
             THEN /\ relay'[r].out = Append(relay[r].out, PromptErrorLine)
                  /\ Count(relay'[r].out, {"error"}) = 1
                  /\ Terminals(relay'[r]) = 1
                  /\ relay'[r].closes = relay[r].closes + 1
                  /\ ~relay'[r].esOpen
                  /\ relay'[r].ended = relay[r].ended + 1
                  /\ relay'[r].finished
             ELSE /\ relay'[r].out = relay[r].out
                  /\ relay'[r].ended = relay[r].ended
                  /\ relay'[r].closes = relay[r].closes]_vars

\* the submission of one relay failed while it was relaying and was
\* reported; the submission of the other failed after its feed had failed
C12_Witness ==
    /\ P2
    /\ relay["abc"].pc = "caught" /\ relay["abc"].out = << PromptErrorLine >>
    /\ relay["abc"].closes = 1 /\ relay["abc"].ended = 1
    /\ relay["xyz"].pc = "caught" /\ relay["xyz"].out = << FeedErrorLine >>
    /\ relay["xyz"].closes = 1 /\ relay["xyz"].ended = 1

\* C13: in part_002 the step of the client's close event and every later
\* step of that session write no line to the stream and do not end the
\* response.
C13_SilentDisconnect ==
    [][\A r \in SessionIds :
          (P2 /\ (relay[r].clientClosed \/ relay'[r].clientClosed))
          => /\ relay'[r].out = relay[r].out
             /\ relay'[r].ended = relay[r].ended]_vars

\* the client left after a forwarded session.idle and before the submission
\* returned; afterwards the grace timer and the safety timer both expired
C13_Witness ==
    \E r \in SessionIds :
        /\ P2 /\ relay[r].clientClosed /\ relay[r].pc = "returned"
        /\ relay[r].safetyTimeout = "timer" /\ relay[r].safetyDue = NoTimer
        /\ Len(relay[r].out) = 1 /\ relay[r].out[1].type = "session.idle"
        /\ relay[r].grace = << >>
        /\ relay[r].ended = 0

\* the first a in ops comes before the first b, and both occur
Precedes(ops, a, b) ==
    \E i, j \in 1..Len(ops) :
        /\ i < j /\ ops[i] = a /\ ops[j] = b
        /\ \A k \in 1..i : ops[k] # b

\* C14: in every relay session with non-empty content, of either server, the
\* stream to the caller is opened before the upstream subscription is
\* created and the subscription is created before the prompt is submitted;
\* no session has submitted a prompt without a subscription created before.
C14_ProtocolOrder ==
    \A r \in SessionIds :
        /\ (relay[r].pc # "none" /\ Truthy(relay[r].content))
           => /\ Precedes(relay[r].ops, "writeHead", "new EventSource")
              /\ Precedes(relay[r].ops, "new EventSource", "prompt_async")
              /\ relay[r].status = 200
        /\ (relay[r].submits > 0 \/ \E i \in 1..Len(relay[r].ops) : relay[r].ops[i] = "prompt_async")
           => /\ relay[r].subs > 0
              /\ Precedes(relay[r].ops, "new EventSource", "prompt_async")

\* an event the upstream emitted while the submission was still in flight
\* was forwarded
C14_Witness ==
    \E r \in SessionIds :
        /\ relay[r].content = "hello" /\ relay[r].pc = "awaiting"
        /\ relay[r].submits = 1 /\ Len(feed) = 1
        /\ relay[r].out = << Forwarded(feed[1]) >>

RECURSIVE IsSubsequence(_, _)
\* a is b with some elements left out
IsSubsequence(a, b) ==
    IF a = << >> THEN TRUE
    ELSE IF b = << >> THEN FALSE
    ELSE IF Head(a) = Head(b) THEN IsSubsequence(Tail(a), Tail(b))
    ELSE IsSubsequence(a, Tail(b))

\* the received events as they would be written
ReceivedLines(s) == [i \in 1..Len(Received(s)) |-> Forwarded(Received(s)[i])]

\* C15: the forwarded events of a session's stream are a subsequence of the
\* events the relay received, in the order received; an event is written in
\* the step that receives it, at the end of the stream, once.
C15_Ordering ==
    /\ [](\A r \in SessionIds :
             IsSubsequence(ForwardedLines(relay[r]), ReceivedLines(relay[r])))
    /\ [][\A r \in SessionIds :
             ForwardedLines(relay'[r]) # ForwardedLines(relay[r])
             => /\ relay'[r].cursor = relay[r].cursor + 1
                /\ ForwardedLines(relay'[r]) =
                      Append(ForwardedLines(relay[r]),
                             Forwarded(feed[relay[r].cursor + 1]))]_vars

\* two different events were received and both are in the stream, in the
\* order of the feed
C15_Witness ==
    \E r \in SessionIds :
        /\ relay[r].subAt = 0 /\ relay[r].cursor = 2
        /\ feed[1].json /\ feed[2].json /\ feed[1] # feed[2]
        /\ feed[1].type = "session.idle"
        /\ relay[r].out = << Forwarded(feed[1]), Forwarded(feed[2]) >>

\* the events of the scenario: a text delta for "abc", then the idle event
DeltaEvent == [json |-> TRUE, type |-> "message.part.updated", sid |-> "abc"]
IdleEvent == [json |-> TRUE, type |-> "session.idle", sid |-> "abc"]

\* the scenario has run to the end of the response: content "hello" to
\* session "abc", the upstream emitted the delta and then the idle event,
\* both were received, and nothing else happened to the session (no feed
\* error, no failed submission, no timeout, the client stayed)
ScenarioEnded ==
    /\ relay["abc"].content = "hello"
    /\ relay["abc"].subAt = 0 /\ relay["abc"].cursor = 2
    /\ feed = << DeltaEvent, IdleEvent >>
    /\ ~relay["abc"].clientClosed /\ relay["abc"].pc # "caught"
    /\ Count(relay["abc"].out, {"error", "timeout"}) = 0
    /\ relay["abc"].ended >= 1

\* C16 as stated: at the end of the scenario the stream holds two lines, the
\* delta event and then done, written a grace interval after the idle
\* event, and the connection is closed.
C16_Original ==
    ScenarioEnded
    => /\ relay["abc"].out = << Forwarded(DeltaEvent), DoneLine >>
       /\ relay["abc"].sinceIdle = GRACE_MS
       /\ relay["abc"].ended = 1 /\ ~relay["abc"].esOpen

\* C16 (amended): at the end of the scenario the stream holds three lines,
\* the delta event, the session.idle event and then done, written a grace
\* interval after the idle event, and the connection is closed.
C16_Scenario ==
    ScenarioEnded
    => /\ relay["abc"].out =
             << Forwarded(DeltaEvent), Forwarded(IdleEvent), DoneLine >>
       /\ relay["abc"].sinceIdle = GRACE_MS
       /\ relay["abc"].ended = 1 /\ ~relay["abc"].esOpen

\* the scenario ran to its end in the multi-user server, with the
\* submission acknowledged
C16_Witness ==
    /\ P2 /\ ScenarioEnded /\ relay["abc"].pc = "returned"
    /\ Len(relay["abc"].out) = 3
    /\ relay["abc"].out[3] = DoneLine

\* a relay's state apart from the time left on its timers
Shape(s) ==
    << [s EXCEPT !.grace = << >>, !.safetyDue = 0, !.sinceIdle = 0],
       Len(s.grace), s.safetyDue = NoTimer >>

\* C17: with two part_002 relays, a step of one relay (anything but the
\* passing of time) leaves the other relay's state unchanged, its finished
\* flag, subscription and timers included; and a relay that has not
\* finished keeps its subscription open, and its safety timer pending once
\* armed, whatever the other relay has done.
C17_Independent ==
    /\ [][\A r, o \in SessionIds :
             (r # o /\ Shape(relay'[r]) # Shape(relay[r]))
             => relay'[o] = relay[o]]_vars
    /\ [](\A o \in SessionIds :
             (relay[o].pc \in {"awaiting", "returned"} /\ ~relay[o].finished)
             => /\ relay[o].esOpen /\ relay[o].eventSource = "object"
                /\ relay[o].pc = "returned" => relay[o].safetyDue # NoTimer)

\* one relay ended on a feed error before any event reached it; the other
\* forwarded the event and reached its own done
C17_Witness ==
    /\ Len(feed) = 1 /\ feed[1].type = "session.idle"
    /\ relay["abc"].cursor = 0 /\ relay["abc"].out = << FeedErrorLine >>
    /\ relay["abc"].closes = 1 /\ relay["abc"].ended = 1
    /\ relay["xyz"].cursor = 1
    /\ relay["xyz"].out = << Forwarded(feed[1]), DoneLine >>
    /\ relay["xyz"].closes = 1 /\ relay["xyz"].ended = 1

\* C18: in both servers, the delivery of an event that passes the session
\* filter and whose type is not session.idle appends the event to the
\* stream and changes nothing else: no grace timer, finished unchanged, the
\* response not ended; and done is only ever written to a stream that holds
\* a forwarded session.idle.
C18_OnlyIdleTerminal ==
    /\ [][\A r \in SessionIds :
             (/\ relay[r].eventSource # "undefined"
              /\ relay'[r].cursor = relay[r].cursor + 1
              /\ feed[relay[r].cursor + 1].json
              /\ ~Dropped(feed[relay[r].cursor + 1], r)
              /\ feed[relay[r].cursor + 1].type # "session.idle")
             => relay'[r] =
                   [relay[r] EXCEPT
                      !.out = Append(@, Forwarded(feed[relay[r].cursor + 1])),
                      !.cursor = @ + 1]]_vars
    /\ [](\A r \in SessionIds :
             Count(relay[r].out, {"done"}) > 0
             => \E i \in 1..Len(relay[r].out) :
                   /\ relay[r].out[i].type = "session.idle"
                   /\ \A j \in 1..i : relay[r].out[j] # DoneLine)

\* the older server forwarded an event of another type; time has passed
\* since and the relay is still relaying, with no grace timer
C18_Witness ==
    \E r \in SessionIds :
        /\ impl = "server_js" /\ relay[r].pc = "returned"
        /\ ~relay[r].finished /\ relay[r].esOpen
        /\ relay[r].cursor = 1 /\ feed[1].type = "message.part.updated"
        /\ relay[r].out = << Forwarded(feed[1]) >>
        /\ relay[r].grace = << >>
        /\ relay[r].safetyDue # NoTimer /\ relay[r].safetyDue < SAFETY_MS

ListingRoutes == {"GET /api/sessions", "GET /api/sessions/:id/messages"}

\* the upstream answered 2xx with a JSON array
ArrayReply(reply) == Ok(reply) /\ Parse(reply.text).kind = "array"

\* C19: in both servers a listing request (sessions, messages of a session)
\* is answered 200 with an array whatever the upstream did: the upstream's
\* array when it answered 2xx with one, the empty array when the call threw,
\* the status was not 2xx or the body was not an array.
C19_ListingsNeverFail ==
    \A i \in 1..Len(calls) :
        (calls[i].pc = "answered" /\ calls[i].route \in ListingRoutes)
        => /\ calls[i].answer.status = 200
           /\ calls[i].answer.shape = "value"
           /\ calls[i].answer.value.kind = "array"
           /\ calls[i].answer.value =
                 IF ArrayReply(calls[i].reply)
                 THEN Parse(calls[i].reply.text) ELSE EmptyArray

\* the sessions listing met an upstream 500 and the messages listing a JSON
\* object; both answered the empty array
C19_Witness ==
    /\ Len(calls) = 2
    /\ calls[1].route = "GET /api/sessions" /\ calls[1].pc = "answered"
    /\ calls[1].reply.status = 500
    /\ calls[1].answer.status = 200 /\ calls[1].answer.value = EmptyArray
    /\ calls[2].route = "GET /api/sessions/:id/messages" /\ calls[2].pc = "answered"
    /\ calls[2].reply = [status |-> 200, text |-> "{\"id\":\"abc\"}"]
    /\ calls[2].answer.status = 200 /\ calls[2].answer.value = EmptyArray

SurfacingRoutes == {"POST /api/sessions", "GET /api/sessions/:id", "GET /api/agents"}

\* create session, get session and list agents: 500 with the error's message
\* when the upstream call failed, the upstream's result otherwise
Surfaces(c) ==
    IF Ok(c.reply)
    THEN /\ c.answer.status = 200 /\ c.answer.shape = "value"
         /\ c.answer.value = Parse(c.reply.text)
    ELSE /\ c.answer.status = 500 /\ c.answer.shape = "error"
         /\ c.answer.err = Err(PathOf(c.route), c.reply)

\* C20 as stated: the three routes surface the failure; the health route
\* answers 503 with status "error" when the upstream is unreachable and
\* status "ok" in every other case; no route answers a success after a
\* failed upstream call.
C20_Original ==
    \A i \in 1..Len(calls) :
        calls[i].pc = "answered"
        => /\ calls[i].route \in SurfacingRoutes => Surfaces(calls[i])
           /\ calls[i].route = "GET /api/health"
              => IF calls[i].reply = Unreachable
                 THEN /\ calls[i].answer.status = 503
                      /\ calls[i].answer.health = "error"
                 ELSE /\ calls[i].answer.status = 200
                      /\ calls[i].answer.health = "ok"
           /\ (calls[i].route \notin ListingRoutes /\ ~Ok(calls[i].reply))
              => calls[i].answer.status >= 500

\* C20 (amended): the same, with the health route answering 503 with status
\* "error" whenever its upstream call fails, by no connection or by a
\* status that is not 2xx, and 200 with status "ok" otherwise.
C20_SurfaceFailure ==
    \A i \in 1..Len(calls) :
        calls[i].pc = "answered"
        => /\ calls[i].route \in SurfacingRoutes => Surfaces(calls[i])
           /\ calls[i].route = "GET /api/health"
              => IF ~Ok(calls[i].reply)
                 THEN /\ calls[i].answer.status = 503
                      /\ calls[i].answer.health = "error"
                      /\ calls[i].answer.err = Err("/global/health", calls[i].reply)
                 ELSE /\ calls[i].answer.status = 200
                      /\ calls[i].answer.health = "ok"
                      /\ calls[i].answer.value = Parse(calls[i].reply.text)
           /\ (calls[i].route \notin ListingRoutes /\ ~Ok(calls[i].reply))
              => calls[i].answer.status >= 500

\* session creation met an unreachable upstream and answered 500; the health
\* route met an upstream 500 and answered 503
C20_Witness ==
    /\ Len(calls) = 2
    /\ calls[1].route = "POST /api/sessions" /\ calls[1].pc = "answered"
    /\ calls[1].reply = Unreachable
    /\ calls[1].answer.status = 500 /\ calls[1].answer.shape = "error"
    /\ calls[2].route = "GET /api/health" /\ calls[2].pc = "answered"
    /\ calls[2].reply.status = 500
    /\ calls[2].answer.status = 503 /\ calls[2].answer.health = "error"

\* C21: for each address, at most RATE_LIMIT_MAX_REQUESTS requests are
\* passed on within a window of the window start recorded for it, and every
\* further request in that window gets 429 and is not passed on; a request
\* from one address leaves the entry and the tally of every other address
\* unchanged.
C21_RateBound ==
    /\ [](\A k \in Addresses :
             limiter.tally[k].passed <= RATE_LIMIT_MAX_REQUESTS)
    /\ [][\A k \in Addresses :
             limiter'.arrivals[k] = limiter.arrivals[k] + 1
             => /\ (/\ limiter.map[k].has
                    /\ limiter.map[k].age <= RATE_LIMIT_WINDOW_MS
                    /\ limiter.tally[k].passed >= RATE_LIMIT_MAX_REQUESTS)
                   => /\ limiter'.verdict = "429"
                      /\ limiter'.tally[k] = limiter.tally[k]
                /\ \A o \in Addresses \ {k} :
                      /\ limiter'.map[o] = limiter.map[o]
                      /\ limiter'.tally[o] = limiter.tally[o]]_vars

\* the first address had 60 requests passed and its 61st and 62nd answered
\* 429, while both requests of the second address were passed
C21_Witness ==
    /\ limiter.arrivals["10.0.0.1"] = 62
    /\ limiter.tally["10.0.0.1"].passed = RATE_LIMIT_MAX_REQUESTS
    /\ limiter.map["10.0.0.1"].count = 62
    /\ limiter.from = "10.0.0.1" /\ limiter.verdict = "429"
    /\ limiter.arrivals["10.0.0.2"] = 2
    /\ limiter.tally["10.0.0.2"].passed = 2

\* the file name decodes and its decoded text has no separator and no ".."
CleanName(filename) ==
    /\ ~decodeURIComponent(filename).threw
    /\ \A i \in 1..Len(filename) :
          DecodePiece(filename[i]) \notin {"/", "\\", ".."}

\* the path is strictly below the directory
Below(path, dir) == Len(path) > Len(dir) /\ SubSeq(path, 1, Len(dir)) = dir

\* C22: the download route sends a file only for the category uploads or
\* outputs, a file name that decodes to a text without "/", "\" and "..",
\* and a path inside the directory of the category; every other category
\* is answered 400 and every other file name 403; no path outside the two
\* directories is sent.
C22_DownloadGuard ==
    download.status # 0
    => /\ download.status = 200
          => /\ download.category \in {"uploads", "outputs"}
             /\ CleanName(download.filename)
             /\ Below(download.sent, IF download.category = "outputs"
                                     THEN OUTPUT_DIR ELSE UPLOAD_DIR)
       /\ download.category \notin {"uploads", "outputs"} => download.status = 400
       /\ (download.category \in {"uploads", "outputs"}
           /\ ~CleanName(download.filename)) => download.status = 403
       /\ download.sent # NoPath
          => Below(download.sent, UPLOAD_DIR) \/ Below(download.sent, OUTPUT_DIR)

\* whatever the request, nothing outside the two directories is sent
FilesStayInside ==
    download.sent # NoPath
    => /\ Below(download.sent, UPLOAD_DIR) \/ Below(download.sent, OUTPUT_DIR)
       /\ download.status = 200

\* C23: in server.js at most one terminal signal (done, error, timeout) is
\* written to a session's stream, and no step writes to the response once
\* the relay has finished or the client has disconnected.
C23_ServerJsOneTerminal ==
    /\ [](\A r \in SessionIds :
             impl = "server_js" => Terminals(relay[r]) <= 1)
    /\ [][\A r \in SessionIds :
             (impl = "server_js" /\ (relay[r].finished \/ relay[r].clientClosed))
             => relay'[r].out = relay[r].out]_vars

\* C24: in the SDK-based server at most one terminal signal (done, error,
\* timeout) is written to a session's stream, no event is forwarded after
\* done, and no step writes to a response that was ended.
C24_SdkOneTerminal ==
    /\ [](\A r \in SessionIds :
             impl = "part_000"
             => /\ Terminals(relay[r]) <= 1
                /\ \A i, j \in 1..Len(relay[r].out) :
                      (i < j /\ relay[r].out[i] = DoneLine)
                      => relay[r].out[j].type \in TerminalTypes)
    /\ [][\A r \in SessionIds :
             (impl = "part_000" /\ relay[r].ended >= 1)
             => relay'[r].out = relay[r].out]_vars

\* C25: in every state in which a part_002 session has written its terminal
\* signal (done, error or timeout), its subscription is closed and no safety
\* timer of the session is pending.
C25_ReleasedWhenFinished ==
    \A r \in SessionIds :
        (P2 /\ Terminals(relay[r]) >= 1)
        => /\ ~relay[r].esOpen /\ relay[r].closes = 1
           /\ relay[r].safetyDue = NoTimer

\* C26: in part_002 an event that passes the filter and is delivered while
\* the prompt submission is still in flight is written to the stream in
\* that step, and a session.idle among them starts its grace timer; such a
\* session then gets its done line, unless the client leaves or an error
\* line is written first.
C26_RelayedInFlight ==
    /\ [][\A r \in SessionIds :
             (/\ P2 /\ relay[r].pc = "awaiting" /\ ~relay[r].finished
              /\ relay'[r].cursor = relay[r].cursor + 1
              /\ feed[relay[r].cursor + 1].json
              /\ ~Dropped(feed[relay[r].cursor + 1], r))
             => /\ relay'[r].out =
                      Append(relay[r].out, Forwarded(feed[relay[r].cursor + 1]))
                /\ feed[relay[r].cursor + 1].type = "session.idle"
                   => relay'[r].grace = Append(relay[r].grace, GRACE_MS)]_vars
    /\ \A r \in SessionIds :
          (P2 /\ relay[r].pc = "awaiting" /\ ~relay[r].finished
              /\ relay[r].grace # << >>)
          ~> \/ Count(relay[r].out, {"done"}) = 1
             \/ relay[r].clientClosed
             \/ Count(relay[r].out, {"error"}) >= 1

\* session.idle was forwarded and done written, a grace interval later,
\* with the prompt submission still in flight
C26_Witness ==
    \E r \in SessionIds :
        /\ P2 /\ relay[r].pc = "awaiting" /\ relay[r].sinceIdle = GRACE_MS
        /\ Len(relay[r].out) = 2 /\ relay[r].out[1].type = "session.idle"
        /\ relay[r].out[2] = DoneLine /\ relay[r].ended = 1

\* the events relay r received before it finished that pass its filter, as
\* they are written
PassedOf(s, r) ==
    LET mine == SelectSeq(Received(s), LAMBDA e : e.json /\ ~Dropped(e, r))
    IN  [i \in 1..Len(mine) |-> Forwarded(mine[i])]

\* C27: in part_002 every event that passes the filter and is received
\* before the relay finishes is in the stream, those received between the
\* session.idle and the expiry of its grace timer included; they come before
\* the done line, which is the last line of every stream that holds it.
C27_TrailingAdmitted ==
    \A r \in SessionIds :
        P2 => /\ ForwardedLines(relay[r]) = PassedOf(relay[r], r)
              /\ \A i \in 1..Len(relay[r].out) :
                    relay[r].out[i] = DoneLine => i = Len(relay[r].out)

\* an event received after the session.idle is in the stream, between the
\* idle event and done
C27_Witness ==
    \E r \in SessionIds :
        /\ P2 /\ relay[r].subAt = 0 /\ relay[r].cursor = 2
        /\ feed[1].json /\ feed[1].type = "session.idle"
        /\ feed[2].json /\ feed[2].type = "message.part.updated"
        /\ relay[r].out = << Forwarded(feed[1]), Forwarded(feed[2]), DoneLine >>
        /\ relay[r].sinceIdle = GRACE_MS

\* the positions of a stream that hold a forwarded session.idle whose
\* session id is in ids
IdleLines(out, ids) ==
    {i \in 1..Len(out) : out[i].type = "session.idle" /\ out[i].sid \in ids}

\* done is only written after a forwarded session.idle with an id in ids,
\* and every pending grace timer was started by such an event
ScopedTo(s, ids) ==
    /\ \A j \in 1..Len(s.out) :
          s.out[j] = DoneLine => \E i \in IdleLines(s.out, ids) : i < j
    /\ Len(s.grace) <= Cardinality(IdleLines(s.out, ids))

\* C28 as stated: a part_002 relay with id S writes done only after it
\* forwarded a session.idle whose session id is absent or S, and only such
\* events start a grace timer.
C28_Original ==
    \A r \in SessionIds : P2 => ScopedTo(relay[r], {Absent, r})

\* C28 (amended): the same, with the session.idle events whose session id
\* is absent, empty or S.
C28_SessionScoped ==
    \A r \in SessionIds : P2 => ScopedTo(relay[r], {Absent, "", r})

\* a session.idle of another session was received and dropped, and done
\* followed the relay's own session.idle
C28_Witness ==
    \E r \in SessionIds :
        /\ P2 /\ relay[r].subAt = 0 /\ relay[r].cursor = 2
        /\ feed[1].json /\ feed[1].type = "session.idle"
        /\ Truthy(feed[1].sid) /\ feed[1].sid # r
        /\ feed[2].type = "session.idle" /\ feed[2].sid = r
        /\ relay[r].out = << Forwarded(feed[2]), DoneLine >>

\* the session was pre-empted: the safety timeout fired, the feed errored
\* or the client left, and done had not been written
Preempted(s) ==
    /\ TimedOut(s) \/ FeedErrored(s) \/ s.clientClosed
    /\ Count(s.out, {"done"}) = 0

\* C29: in part_002, once the safety timeout, a feed error or the client's
\* disconnect pre-empted a session, no step writes done for it, and the
\* expiry of a grace timer that was still pending removes that timer and
\* changes nothing else.
C29_Preemption ==
    [][\A r \in SessionIds :
          (P2 /\ Preempted(relay[r]))
          => /\ Count(relay'[r].out, {"done"}) = 0
             /\ Len(relay'[r].grace) < Len(relay[r].grace)
                => relay'[r] = [relay[r] EXCEPT !.grace = Tail(@)]]_vars

\* the safety timeout fired 150 ms after a forwarded session.idle, and the
\* grace timer of that event expired afterwards
C29_Witness ==
    \E r \in SessionIds :
        /\ P2 /\ Len(relay[r].out) = 2
        /\ relay[r].out[1].type = "session.idle"
        /\ relay[r].out[2] = TimeoutLine
        /\ relay[r].grace = << >> /\ relay[r].sinceIdle = GRACE_MS
        /\ relay[r].ended = 1 /\ ~relay[r].clientClosed

\* the session.idle events a relay has forwarded
Idles(s) == Count(s.out, {"session.idle"})

\* C30: in part_002, while a session has not finished every forwarded
\* session.idle has its own grace timer pending and the oldest of them is
\* due a grace interval after the first such event, whatever came later;
\* the first expiry writes the one done of the session, unless an error, a
\* timeout or the client's disconnect came first; and each later expiry
\* removes its timer and changes nothing else.
C30_RepeatedIdle ==
    /\ [](\A r \in SessionIds :
            P2 => /\ Count(relay[r].out, {"done"}) <= 1
                  /\ ~relay[r].finished
                     => /\ Len(relay[r].grace) = Idles(relay[r])
                        /\ relay[r].grace # << >>
                           => Head(relay[r].grace) + relay[r].sinceIdle = GRACE_MS
                  /\ Len(relay[r].grace) < Idles(relay[r])
                     => \/ Count(relay[r].out, {"done"}) = 1
                        \/ Count(relay[r].out, {"error", "timeout"}) > 0
                        \/ relay[r].clientClosed)
    /\ [][\A r \in SessionIds :
            P2 => /\ Count(relay'[r].out, {"done"}) > Count(relay[r].out, {"done"})
                     => /\ relay[r].sinceIdle = GRACE_MS
                        /\ relay[r].grace # << >>
                        /\ relay'[r].grace = Tail(relay[r].grace)
                  /\ (/\ Count(relay[r].out, {"done"}) = 1
                      /\ Len(relay'[r].grace) < Len(relay[r].grace))
                     => relay'[r] = [relay[r] EXCEPT !.grace = Tail(@)]]_vars

\* two session.idle events were forwarded, done followed them, and the
\* second grace timer expired after the response had ended
C30_Witness ==
    \E r \in SessionIds :
        /\ P2 /\ Len(relay[r].out) = 3
        /\ relay[r].out[1].type = "session.idle"
        /\ relay[r].out[2].type = "session.idle"
        /\ relay[r].out[3] = DoneLine
        /\ relay[r].grace = << >> /\ relay[r].sinceIdle = GRACE_MS
        /\ relay[r].ended = 1 /\ relay[r].closes = 1

\* C31: in part_002 res.end() is called at most once per session and only
\* after cleanup(); the step that calls it appends a terminal line (done,
\* error or timeout) as the last line of the stream, and it is never a
\* step of a session whose client has disconnected.
C31_EndOnce ==
    /\ [](\A r \in SessionIds :
            P2 => /\ relay[r].ended <= 1
                  /\ relay[r].ended = 1
                     => /\ Precedes(relay[r].ops, "cleanup", "res.end")
                        /\ relay[r].finished)
    /\ [][\A r \in SessionIds :
            (P2 /\ relay'[r].ended > relay[r].ended)
            => /\ Len(relay'[r].out) = Len(relay[r].out) + 1
               /\ relay'[r].out[Len(relay'[r].out)].type \in TerminalTypes
               /\ Terminals(relay'[r]) = Terminals(relay[r]) + 1
               /\ ~relay[r].clientClosed /\ ~relay'[r].clientClosed]_vars

\* a session ended on the safety timeout: one timeout line, cleanup and
\* then res.end(); the client disconnected afterwards
C31_Witness ==
    \E r \in SessionIds :
        /\ P2 /\ relay[r].ended = 1 /\ relay[r].clientClosed
        /\ relay[r].out = << TimeoutLine >>
        /\ relay[r].ops = << "writeHead", "new EventSource", "prompt_async",
                             "cleanup", "res.end" >>

\* C32: in part_002 the delivery of an event whose payload is not JSON
\* changes nothing of the session (stream, finished, subscription, timers,
\* response), and in every reachable state each event is handled after a
\* malformed one exactly as it is handled without it.
C32_MalformedDropped ==
    /\ [](\A r \in SessionIds, e \in Events :
            (P2 /\ relay[r].esOpen)
            => onmessage(onmessage(relay[r], Malformed, r), e, r)
               = onmessage(relay[r], e, r))
    /\ [][\A r \in SessionIds :
            (/\ P2 /\ relay[r].eventSource # "undefined"
             /\ relay'[r].cursor = relay[r].cursor + 1
             /\ ~feed[relay'[r].cursor].json)
            => relay'[r] = [relay[r] EXCEPT !.cursor = @ + 1]]_vars

\* a malformed event was received first, then the session's session.idle,
\* which was forwarded and followed by done
C32_Witness ==
    \E r \in SessionIds :
        /\ P2 /\ relay[r].subAt = 0 /\ relay[r].cursor = 2
        /\ feed[1] = Malformed
        /\ feed[2].json /\ feed[2].type = "session.idle"
        /\ relay[r].out = << Forwarded(feed[2]), DoneLine >>
        /\ relay[r].ended = 1

\* C33: a request of an address whose entry is at most a window old, the
\* request made exactly 60 s after the window start included, leaves the
\* window start as it is and is counted in that window, passed or
\* answered 429; the first request made more than 60 s after the window
\* start is passed and opens a new window with count 1, however many
\* requests the old window had counted.
C33_WindowReset ==
    [][\A k \in Addresses :
          (limiter'.arrivals[k] = limiter.arrivals[k] + 1 /\ limiter.map[k].has)
          => IF limiter.map[k].age <= RATE_LIMIT_WINDOW_MS
             THEN /\ limiter'.map[k] = [limiter.map[k] EXCEPT !.count = @ + 1]
                  /\ limiter'.verdict = "429"
                     <=> limiter.map[k].count >= RATE_LIMIT_MAX_REQUESTS
             ELSE /\ limiter'.map[k] = [has |-> TRUE, age |-> 0, count |-> 1]
                  /\ limiter'.verdict = "next"]_vars

\* the first address was answered 429 on its 61st request, waited until
\* 60001 ms after its window start, and its next request was passed on and
\* opened a new window
C33_Witness ==
    /\ limiter.arrivals["10.0.0.1"] = RATE_LIMIT_MAX_REQUESTS + 2
    /\ limiter.elapses = 1
    /\ limiter.from = "10.0.0.1" /\ limiter.verdict = "next"
    /\ limiter.map["10.0.0.1"] = [has |-> TRUE, age |-> 0, count |-> 1]

\* C34: the verdict on every request is the verdict the same requests get
\* at the same instants from a table that is never swept, and the verdict
\* on the next request of every address is the same for both tables; a
\* sweep deletes only entries older than two windows, never an entry whose
\* window is current, and changes no other entry.
C34_SweepUnobservable ==
    /\ [](/\ limiter.verdict = limiter.unsweptVerdict
          /\ \A k \in Addresses :
                rateLimit(limiter.map, k).verdict
                = rateLimit(limiter.unswept, k).verdict)
    /\ [][\A k \in Addresses :
            (/\ limiter'.arrivals = limiter.arrivals
             /\ limiter'.elapses = limiter.elapses
             /\ limiter'.map[k] # limiter.map[k])
            => /\ limiter.map[k].has
               /\ limiter.map[k].age > 2 * RATE_LIMIT_WINDOW_MS
               /\ limiter'.map[k] = NoEntry]_vars

\* the first address was answered 429, its entry grew older than two
\* windows and was swept, and its next request was passed on, as it is
\* with the entry kept
C34_Witness ==
    /\ limiter.arrivals["10.0.0.1"] = RATE_LIMIT_MAX_REQUESTS + 2
    /\ limiter.elapses = 2
    /\ limiter.from = "10.0.0.1"
    /\ limiter.verdict = "next" /\ limiter.unsweptVerdict = "next"
    /\ limiter.map["10.0.0.1"] = [has |-> TRUE, age |-> 0, count |-> 1]
    /\ limiter.unswept["10.0.0.1"] = [has |-> TRUE, age |-> 0, count |-> 1]
    /\ limiter.arrivals["10.0.0.2"] = 1
    /\ ~limiter.map["10.0.0.2"].has /\ limiter.unswept["10.0.0.2"].has

TypeOK ==
    /\ impl \in Impls \cup {"part_000"}
    /\ clients \subseteq SessionIds
    /\ budget \in Nat
    /\ \A r \in SessionIds : relay[r].pc \in {"none", "rejected", "awaiting", "returned", "caught"}
====
